---------------------------- MODULE Spec2Model ----------------------------
(***************************************************************************)
(* The action-driven state machine framework of part_000 (StateMachine,    *)
(* getNextState, SendEvent) driven by concurrent callers, together with    *)
(* the light-switch definition built by newLightSwitchFSM and a few other  *)
(* machine definitions a host can hand to the framework.                   *)
(***************************************************************************)
EXTENDS Naturals, Sequences, FiniteSets, TLC

(* ------------------------------ bounds -------------------------------- *)

\* Number of goroutines calling SendEvent on the one machine.
NumCallers == 2

\* Total number of SendEvent calls made in one run.
MaxCalls == 5

\* Number of loop iterations the serial reference run of one call follows.
MaxCascade == 3

\* Number of transitions and of actions of one call the history records;
\* a call that makes more (a cascade that goes round a cycle) is recorded
\* up to this number.
MaxRecorded == 3

\* Number of events sent to the turnstile in one run.
MaxTransitions == 6

(* ------------------------ framework constants ------------------------- *)

\* const Default StateType = ""
Default == ""

\* const NoOp EventType = "NoOp"
NoOp == "NoOp"

\* var ErrEventRejected = errors.New("event rejected"); nil is success.
ErrEventRejected == "event rejected"

Success == "nil"

\* What the Go runtime raises when a method is called on a nil Action.
NilDereference == "panic: nil pointer dereference"

\* A nil Action (the zero value of the interface).
NilAction == "nil"

(* ------------------------- light switch example ----------------------- *)

Off == "Off"

On == "On"

SwitchOff == "SwitchOff"

SwitchOn == "SwitchOn"

OffAction == "OffAction"

OnAction == "OnAction"

\* The empty transition table (a State literal without Events).
NoEvents == [e \in {} |-> Default]

\* A slip in the literal: the Off state also accepts SwitchOff.
LightSwitchStates_OffAcceptsSwitchOff ==
    (Default :> [Action |-> NilAction, Events |-> (SwitchOff :> Off)]) @@
    (Off     :> [Action |-> OffAction,
                 Events |-> (SwitchOn :> On) @@ (SwitchOff :> Off)]) @@
    (On      :> [Action |-> OnAction,  Events |-> (SwitchOff :> Off)])

\* A slip in the literal: the two actions are bound to the wrong states.
LightSwitchStates_ActionsSwapped ==
    (Default :> [Action |-> NilAction, Events |-> (SwitchOff :> Off)]) @@
    (Off     :> [Action |-> OnAction,  Events |-> (SwitchOn :> On)]) @@
    (On      :> [Action |-> OffAction, Events |-> (SwitchOff :> Off)])

\* A slip in the literal: the On state sends SwitchOff back to Default.
LightSwitchStates_OnLeadsToDefault ==
    (Default :> [Action |-> NilAction, Events |-> (SwitchOff :> Off)]) @@
    (Off     :> [Action |-> OffAction, Events |-> (SwitchOn :> On)]) @@
    (On      :> [Action |-> OnAction,  Events |-> (SwitchOff :> Default)])

\* newLightSwitchFSM's States literal.
LightSwitchStates ==
    (Default :> [Action |-> NilAction, Events |-> (SwitchOff :> Off)]) @@
    (Off     :> [Action |-> OffAction, Events |-> (SwitchOn :> On)]) @@
    (On      :> [Action |-> OnAction,  Events |-> (SwitchOff :> Off)])

(* ------------------- other definitions a host can build --------------- *)

\* A definition with chained actions: entering "A" emits "next" (accepted
\* by "A", leading to "B", whose action ends the call); entering "C" emits
\* "next", which "C" does not accept.
CascadeStates ==
    (Default :> [Action |-> NilAction, Events |-> ("go" :> "A") @@ ("skip" :> "C")]) @@
    ("A"     :> [Action |-> "EmitNext", Events |-> ("next" :> "B")]) @@
    ("B"     :> [Action |-> "Finish",   Events |-> ("go" :> "A")]) @@
    ("C"     :> [Action |-> "EmitNext", Events |-> NoEvents])

\* A definition with the two wiring defects: "go" leads to "Hub", which is
\* declared without an Action; "skip" leads to "Ghost", which is not declared.
MisconfiguredStates ==
    (Default :> [Action |-> NilAction, Events |-> ("go" :> "Hub") @@ ("skip" :> "Ghost")]) @@
    ("Hub"   :> [Action |-> NilAction, Events |-> ("go" :> "Hub")])

\* A definition with a cascade cycle: "serve" leads to "Ping", whose action
\* emits "hit", which leads to "Pong", whose action emits "hit", which leads
\* back to "Ping".
CycleStates ==
    (Default :> [Action |-> NilAction, Events |-> ("serve" :> "Ping")]) @@
    ("Ping"  :> [Action |-> "Bounce", Events |-> ("hit" :> "Pong")]) @@
    ("Pong"  :> [Action |-> "Bounce", Events |-> ("hit" :> "Ping")])

\* A definition whose states refer to themselves: the table of "Idle" maps
\* "tick" to "Idle" itself, and the action of "Loop" sends "tick" to the
\* machine it is executed by (it calls SendEvent on it) before it returns.
\* Its Default state also has an entry for the event NoOp.
SelfReferringStates ==
    (Default :> [Action |-> NilAction,
                 Events |-> ("call" :> "Loop") @@ ("tick" :> "Idle") @@ (NoOp :> "Idle")]) @@
    ("Idle"  :> [Action |-> "Finish", Events |-> ("tick" :> "Idle")]) @@
    ("Loop"  :> [Action |-> "Resend", Events |-> ("call" :> "Loop")])

Definitions ==
    {LightSwitchStates, CascadeStates, MisconfiguredStates, CycleStates,
     SelfReferringStates}

\* Action.Execute(eventCtx): the event each action returns.
Execute(action, eventCtx) ==
    CASE action = OffAction  -> NoOp
      [] action = OnAction   -> NoOp
      [] action = "EmitNext" -> "next"
      [] action = "Finish"   -> NoOp
      [] action = "Bounce"   -> "hit"
      [] action = "Resend"   -> NoOp

\* The actions whose Execute calls SendEvent on the machine executing them,
\* and the event they send.
Resends(action) == action = "Resend"

ResentEvent(action) == "tick"

\* The events a caller submits to a machine with definition S: every event
\* some table of S names, and NoOp (which the tables of most definitions
\* do not name).
EventsOf(S) == UNION {DOMAIN S[s].Events : s \in DOMAIN S} \cup {NoOp}

\* A slip in newLightSwitchFSM: the literal sets Current to Off.
InitialCurrent_StartsOff(S) ==
    IF S = LightSwitchStates THEN {Off}
    ELSE DOMAIN S \cup {"Ghost"}

\* The Current values a machine with definition S can be constructed with:
\* newLightSwitchFSM leaves Current at its zero value; a struct literal for
\* another definition may set the field to any state identifier.
InitialCurrent(S) ==
    IF S = LightSwitchStates THEN {Default}
    ELSE DOMAIN S \cup {"Ghost"}

(* ------------------------- turnstile example ------------------------- *)

\* A slip in the literal: PUSH leaves an unlocked turnstile unlocked.
TurnstileMachine_PushStaysUnlocked ==
    [ID |-> "lock-unlock",
     Initial |-> "locked",
     States |->
        ("locked" :> [On |-> ("COIN" :> [To |-> "unlocked"]) @@
                             ("PUSH" :> [To |-> "locked"])]) @@
        ("unlocked" :> [On |-> ("COIN" :> [To |-> "unlocked"]) @@
                               ("PUSH" :> [To |-> "unlocked"])])]

\* main's statemachine.Machine literal.
TurnstileMachine ==
    [ID |-> "lock-unlock",
     Initial |-> "locked",
     States |->
        ("locked" :> [On |-> ("COIN" :> [To |-> "unlocked"]) @@
                             ("PUSH" :> [To |-> "locked"])]) @@
        ("unlocked" :> [On |-> ("COIN" :> [To |-> "unlocked"]) @@
                               ("PUSH" :> [To |-> "locked"])])]

\* The events main sends.
TurnstileEvents == {"COIN", "PUSH"}

\* Machine.Transition(ev) on machine M in state current: the destination
\* the current state's table gives for the event; an event without an
\* entry leaves the state as it is.
TransitionTo(M, current, ev) ==
    IF current \in DOMAIN M.States /\ ev \in DOMAIN M.States[current].On
    THEN [next |-> M.States[current].On[ev].To, found |-> TRUE]
    ELSE [next |-> current, found |-> FALSE]

\* The turnstile before any Transition: Machine.Current() is Initial.
InitialTurnstile ==
    [current |-> TurnstileMachine.Initial, sent |-> <<>>, outputs |-> <<>>,
     unhandled |-> FALSE]

Callers == 1..NumCallers

\* The context value each caller passes: the first passes nil, as the test
\* does; every other caller passes a context of its own.
ContextOf(c) == IF c = 1 THEN "nil" ELSE "ctx" \o ToString(c)

NoCaller == 0

(* ------------------------------- state -------------------------------- *)

VARIABLES
    States,     \* StateMachine.States
    Previous,   \* StateMachine.Previous
    Current,    \* StateMachine.Current
    mutex,      \* StateMachine.mutex: the caller holding it, or NoCaller
    pc,         \* each caller's position in SendEvent
    event,      \* SendEvent's local (and parameter) event, per caller
    eventCtx,   \* SendEvent's parameter eventCtx, per caller
    nextState,  \* SendEvent's local nextState, per caller
    inner,      \* per caller: the action its call executes has called
                \* SendEvent on the same machine and is at s.mutex.Lock()
    alive,      \* FALSE once an unrecovered panic has ended the process
    turnstile,  \* the turnstile of part_001: its current state, the events
                \* sent to it, what Transition returned for each, and
                \* whether an event found no transition
    received,   \* the eventCtx argument of the latest Action.Execute call
    calls       \* history: one record per call, in lock-acquisition order:
                \* the event submitted, Previous and Current when the mutex
                \* was acquired (before) and as the call left them (after),
                \* the transitions made (steps), the actions executed (acts)
                \* and what the call returned (outcome)

vars == <<States, Previous, Current, mutex, pc, event, eventCtx, nextState, inner,
          alive, received, calls, turnstile>>

(* --------------------------- getNextState ----------------------------- *)

\* A slip in getNextState: the fall-through returns a nil error.
getNextState_NoReject(S, current, ev) ==
    IF current \in DOMAIN S /\ ev \in DOMAIN S[current].Events
    THEN [next |-> S[current].Events[ev], err |-> Success]
    ELSE [next |-> Default, err |-> Success]

\* A slip in getNextState: the event is looked up in the tables of all
\* states instead of the current state's table.
getNextState_AnyState(S, current, ev) ==
    IF \E s \in DOMAIN S : ev \in DOMAIN S[s].Events
    THEN [next |-> S[CHOOSE s \in DOMAIN S : ev \in DOMAIN S[s].Events].Events[ev],
          err |-> Success]
    ELSE [next |-> Default, err |-> ErrEventRejected]

\* getNextState: the next state for the event given the machine's current
\* state, or ErrEventRejected.
getNextState(S, current, ev) ==
    IF current \in DOMAIN S /\ ev \in DOMAIN S[current].Events
    THEN [next |-> S[current].Events[ev], err |-> Success]
    ELSE [next |-> Default, err |-> ErrEventRejected]

\* state, ok := s.States[nextState]: the zero State when the key is absent.
Lookup(S, next) ==
    IF next \in DOMAIN S THEN S[next]
    ELSE [Action |-> NilAction, Events |-> NoEvents]

\* A slip in the transition: Previous is not assigned.
Transit_KeepPrevious(previous, current, next) ==
    [Previous |-> previous, Current |-> next]

\* A slip in the transition: the two assignments are in the wrong order, so
\* Previous receives the new state.
Transit_WrongOrder(previous, current, next) ==
    [Previous |-> next, Current |-> next]

\* s.Previous = s.Current; s.Current = nextState
Transit(previous, current, next) == [Previous |-> current, Current |-> next]

\* A slip in the loop: SendEvent returns after the first action whatever
\* event it returned.
Terminal_Always(nextEvent) == TRUE

\* A slip in the loop: the comparison with NoOp is inverted.
Terminal_Inverted(nextEvent) == nextEvent # NoOp

\* if nextEvent == NoOp { return nil }
Terminal(nextEvent) == nextEvent = NoOp

\* SendEvent without mutual exclusion: Lock never waits.
LockFree_Always(m) == TRUE

\* sync.Mutex.Lock returns only when no one holds the mutex.
LockFree(m) == m = NoCaller

\* A slip: the Unlock is missing.
Unlock_Missing(m) == m

\* defer s.mutex.Unlock(): runs on every way out of SendEvent.
Unlock(m) == NoCaller

(* ------------------------------ history ------------------------------- *)

\* The record of the call that holds the mutex (the last one in calls).
Last == calls[Len(calls)]

\* The history of a call's actions and the count of its transitions, kept
\* up to MaxRecorded.
Record(acts, action) == IF Len(acts) < MaxRecorded THEN Append(acts, action) ELSE acts

Count(n) == IF n < MaxRecorded THEN n + 1 ELSE n

Started == Len(calls) + Cardinality({c \in Callers : pc[c] = "lock"})

(* ------------------------------- Init --------------------------------- *)

Init ==
    /\ States \in Definitions
    /\ Current \in InitialCurrent(States)
    /\ Previous = Default
    /\ mutex = NoCaller
    /\ pc = [c \in Callers |-> "idle"]
    /\ event = [c \in Callers |-> NoOp]
    /\ eventCtx = [c \in Callers |-> "nil"]
    /\ nextState = [c \in Callers |-> Default]
    /\ inner = [c \in Callers |-> FALSE]
    /\ alive = TRUE
    /\ received = "none"
    /\ calls = <<>>
    /\ turnstile = InitialTurnstile

(* ------------------------------ SendEvent ----------------------------- *)

\* A caller invokes SendEvent(ev, ContextOf(c)) and reaches s.mutex.Lock().
Call(c, ev) ==
    /\ alive
    /\ pc[c] = "idle"
    /\ Started < MaxCalls
    /\ pc' = [pc EXCEPT ![c] = "lock"]
    /\ event' = [event EXCEPT ![c] = ev]
    /\ eventCtx' = [eventCtx EXCEPT ![c] = ContextOf(c)]
    /\ UNCHANGED <<States, Previous, Current, mutex, nextState, inner, alive, received, calls>>
    /\ UNCHANGED turnstile

\* s.mutex.Lock() returns, in a call made by the caller or in one made by
\* the action the caller's call is executing.
Lock(c) ==
    /\ alive
    /\ pc[c] = "lock" \/ inner[c]
    /\ LockFree(mutex)
    /\ mutex' = c
    /\ pc' = [pc EXCEPT ![c] = "resolve"]
    /\ inner' = [inner EXCEPT ![c] = FALSE]
    /\ calls' = Append(calls, [event |-> event[c],
                               before |-> [Previous |-> Previous, Current |-> Current],
                               after |-> [Previous |-> Previous, Current |-> Current],
                               steps |-> 0, acts |-> <<>>, outcome |-> "running"])
    /\ UNCHANGED <<States, Previous, Current, event, eventCtx, nextState, alive, received>>
    /\ UNCHANGED turnstile

\* SendEvent returns err to its caller: the deferred Unlock runs and the
\* call's parameters and locals are gone.
Return(c, err, log) ==
    /\ mutex' = Unlock(mutex)
    /\ pc' = [pc EXCEPT ![c] = "idle"]
    /\ event' = [event EXCEPT ![c] = NoOp]
    /\ eventCtx' = [eventCtx EXCEPT ![c] = "nil"]
    /\ nextState' = [nextState EXCEPT ![c] = Default]
    /\ calls' = [log EXCEPT ![Len(log)].outcome = err,
                            ![Len(log)].after = [Previous |-> Previous, Current |-> Current]]

\* A slip in SendEvent: getNextState's first result is assigned to
\* s.Current directly, before the error is looked at.
Resolve_AssignBeforeCheck(c) ==
    /\ alive
    /\ pc[c] = "resolve"
    /\ LET r == getNextState(States, Current, event[c]) IN
         /\ Current' = r.next
         /\ IF r.err # Success
            THEN Return(c, ErrEventRejected, calls)
            ELSE /\ nextState' = [nextState EXCEPT ![c] = r.next]
                 /\ pc' = [pc EXCEPT ![c] = "transition"]
                 /\ UNCHANGED <<mutex, event, eventCtx, calls>>
    /\ UNCHANGED <<States, Previous, inner, alive, received>>
    /\ UNCHANGED turnstile

\* A slip in SendEvent: the event is resolved from the state the machine
\* was in before (s.Previous) once there is one.
Resolve_FromPrevious(c) ==
    /\ alive
    /\ pc[c] = "resolve"
    /\ LET from == IF Previous = Default THEN Current ELSE Previous
           r == getNextState(States, from, event[c]) IN
         IF r.err # Success
         THEN Return(c, ErrEventRejected, calls)
         ELSE /\ nextState' = [nextState EXCEPT ![c] = r.next]
              /\ pc' = [pc EXCEPT ![c] = "transition"]
              /\ UNCHANGED <<mutex, event, eventCtx, calls>>
    /\ UNCHANGED <<States, Previous, Current, inner, alive, received>>
    /\ UNCHANGED turnstile

\* A slip in SendEvent: the loop tests the event for NoOp before resolving
\* it, so a submitted NoOp returns nil at once.
Resolve_NoOpReturnsNil(c) ==
    /\ alive
    /\ pc[c] = "resolve"
    /\ LET r == getNextState(States, Current, event[c]) IN
         IF event[c] = NoOp
         THEN Return(c, Success, calls)
         ELSE IF r.err # Success
         THEN Return(c, ErrEventRejected, calls)
         ELSE /\ nextState' = [nextState EXCEPT ![c] = r.next]
              /\ pc' = [pc EXCEPT ![c] = "transition"]
              /\ UNCHANGED <<mutex, event, eventCtx, calls>>
    /\ UNCHANGED <<States, Previous, Current, inner, alive, received>>
    /\ UNCHANGED turnstile

\* nextState, err := s.getNextState(event); if err != nil { return ErrEventRejected }
Resolve(c) ==
    /\ alive
    /\ pc[c] = "resolve"
    /\ LET r == getNextState(States, Current, event[c]) IN
         IF r.err # Success
         THEN Return(c, ErrEventRejected, calls)
         ELSE /\ nextState' = [nextState EXCEPT ![c] = r.next]
              /\ pc' = [pc EXCEPT ![c] = "transition"]
              /\ UNCHANGED <<mutex, event, eventCtx, calls>>
    /\ UNCHANGED <<States, Previous, Current, inner, alive, received>>
    /\ UNCHANGED turnstile

\* A slip in SendEvent: the lookup of the destination state stores the zero
\* State under a key the collection does not hold.
Transition_StoresLookup(c) ==
    /\ alive
    /\ pc[c] = "transition"
    /\ LET t == Transit(Previous, Current, nextState[c]) IN
         /\ Previous' = t.Previous
         /\ Current' = t.Current
         /\ calls' = [calls EXCEPT ![Len(calls)].steps = Count(@)]
    /\ States' = (nextState[c] :> Lookup(States, nextState[c])) @@ States
    /\ pc' = [pc EXCEPT ![c] = "execute"]
    /\ UNCHANGED <<mutex, event, eventCtx, nextState, inner, alive, received>>
    /\ UNCHANGED turnstile

\* The lookup of the next state's definition and the assignment of Previous
\* and Current.  The branch "if !ok || state.Action == nil" has an empty
\* body (only the comment "configuration error"), so nothing is returned
\* there and the assignment follows whatever the lookup found.
Transition(c) ==
    /\ alive
    /\ pc[c] = "transition"
    /\ LET t == Transit(Previous, Current, nextState[c]) IN
         /\ Previous' = t.Previous
         /\ Current' = t.Current
         /\ calls' = [calls EXCEPT ![Len(calls)].steps = Count(@)]
    /\ pc' = [pc EXCEPT ![c] = "execute"]
    /\ UNCHANGED <<States, mutex, event, eventCtx, nextState, inner, alive, received>>
    /\ UNCHANGED turnstile

\* A slip in SendEvent: the mutex is released at the end of every loop
\* iteration instead of at the end of the call.
ExecuteAction_UnlockBetweenSteps(c) ==
    /\ alive
    /\ pc[c] = "execute"
    /\ ~inner[c]
    /\ LET state == Lookup(States, nextState[c]) IN
         IF state.Action = NilAction
         THEN /\ Return(c, NilDereference, calls)
              /\ alive' \in BOOLEAN
              /\ received' = received
              /\ inner' = inner
         ELSE LET nextEvent == Execute(state.Action, eventCtx[c])
                  log == [calls EXCEPT ![Len(calls)].acts =
                              Record(@, state.Action)]
              IN  /\ alive' = alive
                  /\ received' = eventCtx[c]
                  /\ IF Resends(state.Action)
                     THEN /\ inner' = [inner EXCEPT ![c] = TRUE]
                          /\ event' = [event EXCEPT ![c] = ResentEvent(state.Action)]
                          /\ calls' = log
                          /\ UNCHANGED <<mutex, pc, eventCtx, nextState>>
                     ELSE /\ inner' = inner
                          /\ IF Terminal(nextEvent)
                             THEN Return(c, Success, log)
                             ELSE /\ event' = [event EXCEPT ![c] = nextEvent]
                                  /\ pc' = [pc EXCEPT ![c] = "resolve"]
                                  /\ calls' = log
                                  /\ mutex' = Unlock(mutex)
                                  /\ UNCHANGED <<eventCtx, nextState>>
    /\ UNCHANGED <<States, Previous, Current>>
    /\ UNCHANGED turnstile

\* A slip in SendEvent: the context is handed to the first action of a call
\* only; the actions of later loop iterations receive nil.
ExecuteAction_ContextFirstOnly(c) ==
    /\ alive
    /\ pc[c] = "execute"
    /\ ~inner[c]
    /\ LET state == Lookup(States, nextState[c]) IN
         IF state.Action = NilAction
         THEN /\ Return(c, NilDereference, calls)
              /\ alive' \in BOOLEAN
              /\ received' = received
              /\ inner' = inner
         ELSE LET ctx == IF Last.steps > 1 THEN "nil" ELSE eventCtx[c]
                  nextEvent == Execute(state.Action, ctx)
                  log == [calls EXCEPT ![Len(calls)].acts =
                              Record(@, state.Action)]
              IN  /\ alive' = alive
                  /\ received' = ctx
                  /\ IF Resends(state.Action)
                     THEN /\ inner' = [inner EXCEPT ![c] = TRUE]
                          /\ event' = [event EXCEPT ![c] = ResentEvent(state.Action)]
                          /\ calls' = log
                          /\ UNCHANGED <<mutex, pc, eventCtx, nextState>>
                     ELSE /\ inner' = inner
                          /\ IF Terminal(nextEvent)
                             THEN Return(c, Success, log)
                             ELSE /\ event' = [event EXCEPT ![c] = nextEvent]
                                  /\ pc' = [pc EXCEPT ![c] = "resolve"]
                                  /\ calls' = log
                                  /\ UNCHANGED <<mutex, eventCtx, nextState>>
    /\ UNCHANGED <<States, Previous, Current>>
    /\ UNCHANGED turnstile

\* nextEvent := state.Action.Execute(eventCtx); return nil on NoOp, else
\* loop with event = nextEvent.  A nil Action panics: the deferred Unlock
\* runs while the panic unwinds, and the process ends unless the caller
\* recovers.  An action that calls SendEvent on this machine arrives at
\* s.mutex.Lock() of that call with the event it sends; the executing
\* call's own event is not read again (line 131 overwrites it).
ExecuteAction(c) ==
    /\ alive
    /\ pc[c] = "execute"
    /\ ~inner[c]
    /\ LET state == Lookup(States, nextState[c]) IN
         IF state.Action = NilAction
         THEN /\ Return(c, NilDereference, calls)
              /\ alive' \in BOOLEAN
              /\ received' = received
              /\ inner' = inner
         ELSE LET nextEvent == Execute(state.Action, eventCtx[c])
                  log == [calls EXCEPT ![Len(calls)].acts =
                              Record(@, state.Action)]
              IN  /\ alive' = alive
                  /\ received' = eventCtx[c]
                  /\ IF Resends(state.Action)
                     THEN /\ inner' = [inner EXCEPT ![c] = TRUE]
                          /\ event' = [event EXCEPT ![c] = ResentEvent(state.Action)]
                          /\ calls' = log
                          /\ UNCHANGED <<mutex, pc, eventCtx, nextState>>
                     ELSE /\ inner' = inner
                          /\ IF Terminal(nextEvent)
                             THEN Return(c, Success, log)
                             ELSE /\ event' = [event EXCEPT ![c] = nextEvent]
                                  /\ pc' = [pc EXCEPT ![c] = "resolve"]
                                  /\ calls' = log
                                  /\ UNCHANGED <<mutex, eventCtx, nextState>>
    /\ UNCHANGED <<States, Previous, Current>>
    /\ UNCHANGED turnstile

Next ==
    \E c \in Callers :
        \/ \E ev \in EventsOf(States) : Call(c, ev)
        \/ Lock(c)
        \/ Resolve(c)
        \/ Transition(c)
        \/ ExecuteAction(c)

Spec == Init /\ [][Next]_vars

(* ------------------------ the turnstile program ----------------------- *)

\* output := machine.Transition(ev), after which machine.Current() is the
\* state it returned.
MachineTransition(ev) ==
    /\ Len(turnstile.sent) < MaxTransitions
    /\ LET r == TransitionTo(TurnstileMachine, turnstile.current, ev) IN
         turnstile' = [current |-> r.next,
                       sent |-> Append(turnstile.sent, ev),
                       outputs |-> Append(turnstile.outputs, r.next),
                       unhandled |-> turnstile.unhandled \/ ~r.found]
    /\ UNCHANGED <<States, Previous, Current, mutex, pc, event, eventCtx, nextState,
                   inner, alive, received, calls>>

TurnstileNext == \E ev \in TurnstileEvents : MachineTransition(ev)

\* The program of part_001: it builds the turnstile and sends it events; it
\* runs no StateMachine, whose variables stay as constructed.
TurnstileInit == Init /\ States = LightSwitchStates

TurnstileSpec == TurnstileInit /\ [][TurnstileNext]_vars

(* ---------------------- SendEvent, run serially ---------------------- *)

\* One whole SendEvent(ev) call run alone on a machine in state st
\* (Previous, Current): the for loop of SendEvent, iteration by iteration.
\* It yields the machine's state at the end, every state on the way (path),
\* the actions executed and the value returned; a loop still going after
\* MaxCascade iterations, or stopped at the Lock of a SendEvent its own
\* action made, is reported as "running".
RECURSIVE SerialSendEvent(_, _, _, _, _, _)
SerialSendEvent(S, st, ev, path, acts, fuel) ==
    LET r == getNextState(S, st.Current, ev) IN
    IF r.err # Success
    THEN [state |-> st, path |-> path, acts |-> acts, outcome |-> ErrEventRejected]
    ELSE LET t == Transit(st.Previous, st.Current, r.next)
             state == Lookup(S, r.next)
         IN  IF state.Action = NilAction
             THEN [state |-> t, path |-> path \cup {t}, acts |-> acts,
                   outcome |-> NilDereference]
             ELSE LET nextEvent == Execute(state.Action, "nil")
                      done == Record(acts, state.Action)
                  IN  IF Resends(state.Action)
                      THEN [state |-> t, path |-> path \cup {t}, acts |-> done,
                            outcome |-> "running"]
                      ELSE IF Terminal(nextEvent)
                      THEN [state |-> t, path |-> path \cup {t}, acts |-> done,
                            outcome |-> Success]
                      ELSE IF fuel = 0
                      THEN [state |-> t, path |-> path \cup {t}, acts |-> done,
                            outcome |-> "running"]
                      ELSE SerialSendEvent(S, t, nextEvent, path \cup {t}, done, fuel - 1)

Serial(S, st, ev) == SerialSendEvent(S, st, ev, {st}, <<>>, MaxCascade)

(* ------------------------------- claims ------------------------------- *)

Finished(k) == k.outcome # "running"

Machine == [Previous |-> Previous, Current |-> Current]

\* The event has no transition from state cur in definition S.
NoTransition(S, cur, ev) == cur \notin DOMAIN S \/ ev \notin DOMAIN S[cur].Events

\* C1: for every definition, every Current and every submitted event, when
\* Current is not a key of States or its table has no entry for the event,
\* the call returns ErrEventRejected, leaves Previous and Current as they
\* were when it started and executes no action.
C1_RejectedLeavesMachineUnchanged ==
    \A i \in 1..Len(calls) :
        LET k == calls[i] IN
        NoTransition(States, k.before.Current, k.event) =>
            /\ k.outcome \in {"running", ErrEventRejected}
            /\ k.steps = 0
            /\ k.acts = <<>>
            /\ Finished(k) => k.after = k.before
            /\ ~Finished(k) => Machine = k.before

\* C1 witness: a call made while Current was not a key of States has
\* returned ErrEventRejected.
C1_Witness ==
    \E i \in 1..Len(calls) :
        /\ calls[i].before.Current \notin DOMAIN States
        /\ calls[i].outcome = ErrEventRejected

\* The events of the first n calls, in lock order.
FirstEvents(n) == [i \in 1..n |-> calls[i].event]

\* C2: on a fresh light switch, SwitchOff, SwitchOn, SwitchOff submitted
\* one after another all succeed, and the third call leaves Current = Off
\* and Previous = On.
C2_LightSwitchAlternation ==
    (/\ States = LightSwitchStates
     /\ Len(calls) >= 3
     /\ FirstEvents(3) = <<SwitchOff, SwitchOn, SwitchOff>>) =>
        /\ calls[1].outcome = Success
        /\ calls[2].outcome = Success
        /\ calls[3].outcome \in {"running", Success}
        /\ Finished(calls[3]) =>
              calls[3].after = [Previous |-> On, Current |-> Off]
        /\ (Finished(calls[3]) /\ Len(calls) = 3) =>
              (Current = Off /\ Previous = On)

\* C2 witness: the three calls have been made and the third has returned.
C2_Witness ==
    /\ States = LightSwitchStates
    /\ Len(calls) = 3
    /\ FirstEvents(3) = <<SwitchOff, SwitchOn, SwitchOff>>
    /\ calls[3].outcome = Success
    /\ Current = Off

\* C3: on the light switch, SwitchOff submitted while Current = Off, and
\* SwitchOn submitted while Current = On, return ErrEventRejected and leave
\* Current where it was.
C3_LightSwitchRepeatRejected ==
    States = LightSwitchStates =>
        \A i \in 1..Len(calls) :
            LET k == calls[i] IN
            (\/ k.before.Current = Off /\ k.event = SwitchOff
             \/ k.before.Current = On /\ k.event = SwitchOn) =>
                /\ k.outcome \in {"running", ErrEventRejected}
                /\ Finished(k) => k.after.Current = k.before.Current
                /\ ~Finished(k) => Current = k.before.Current

\* C3 witness: a SwitchOff at Off and a SwitchOn at On have both been
\* rejected.
C3_Witness ==
    /\ States = LightSwitchStates
    /\ \E i \in 1..Len(calls) :
           /\ calls[i].before.Current = Off
           /\ calls[i].event = SwitchOff
           /\ calls[i].outcome = ErrEventRejected
    /\ \E i \in 1..Len(calls) :
           /\ calls[i].before.Current = On
           /\ calls[i].event = SwitchOn
           /\ calls[i].outcome = ErrEventRejected

\* C4: the first event sent to a machine resting in Default, when it is not
\* a key of the Default state's table, is rejected and Current stays
\* Default (on the light switch: SwitchOn as the first event).
C4_RejectionByDefault ==
    (/\ Len(calls) >= 1
     /\ calls[1].before.Current = Default
     /\ Default \in DOMAIN States
     /\ calls[1].event \notin DOMAIN States[Default].Events) =>
        /\ calls[1].outcome \in {"running", ErrEventRejected}
        /\ Finished(calls[1]) => calls[1].after.Current = Default
        /\ Len(calls) = 1 => Current = Default

\* C4 witness: SwitchOn was the first event sent to a light switch and has
\* been rejected.
C4_Witness ==
    /\ States = LightSwitchStates
    /\ Len(calls) = 1
    /\ calls[1].event = SwitchOn
    /\ calls[1].outcome = ErrEventRejected
    /\ Current = Default

\* The callers between acquiring the mutex and returning.
InSendEvent == {c \in Callers : pc[c] \in {"resolve", "transition", "execute"}}

\* C5: at every instant at most one call is between acquiring the lock and
\* returning, and it is the one holding the mutex.
C5_OneCallAtATime ==
    /\ Cardinality(InSendEvent) <= 1
    /\ \A c \in InSendEvent : mutex = c
    /\ mutex # NoCaller => mutex \in InSendEvent

\* C5 witness: one caller is executing an action while another waits for
\* the mutex.
C5_Witness ==
    \E c, d \in Callers : pc[c] = "execute" /\ pc[d] = "lock"

\* C6: the calls, taken in the order in which they acquired the lock, form
\* a serial run: each call starts from the state the one before it left,
\* every finished call left the state and returned the value that the same
\* event yields when run alone from there, and the machine is at all times
\* in a state that serial run passes through.
C6_SerialEquivalence ==
    /\ \A i \in 1..Len(calls) :
           LET k == calls[i] IN
           /\ i = 1 => (k.before.Previous = Default
                        /\ k.before.Current \in InitialCurrent(States))
           /\ i > 1 => (Finished(calls[i - 1]) /\ k.before = calls[i - 1].after)
           /\ Finished(k) =>
                 LET r == Serial(States, k.before, k.event) IN
                 /\ k.after = r.state
                 /\ k.outcome = r.outcome
                 /\ k.acts = r.acts
    /\ calls # <<>> =>
           IF Finished(Last)
           THEN Machine = Last.after
           ELSE Machine \in Serial(States, Last.before, Last.event).path

\* C6 witness: two callers were inside SendEvent together (one waiting for
\* the mutex while the other executed), and three calls have finished, two
\* of them having made a transition.
C6_Witness ==
    /\ Len(calls) >= 3
    /\ \A i \in 1..3 : Finished(calls[i])
    /\ calls[1].steps > 0
    /\ calls[3].steps > 0
    /\ \E c \in Callers : pc[c] = "lock"

\* Event ev, sent in state cur, leads to a state A whose action returns an
\* event that A's table maps to a state B whose action returns NoOp.
Chain(S, cur, ev) ==
    /\ ~NoTransition(S, cur, ev)
    /\ LET A == S[cur].Events[ev] IN
       /\ A \in DOMAIN S
       /\ S[A].Action # NilAction
       /\ LET e2 == Execute(S[A].Action, "nil") IN
          /\ e2 # NoOp
          /\ e2 \in DOMAIN S[A].Events
          /\ LET B == S[A].Events[e2] IN
             /\ B \in DOMAIN S
             /\ S[B].Action # NilAction
             /\ Execute(S[B].Action, "nil") = NoOp

ChainA(S, cur, ev) == S[cur].Events[ev]

ChainB(S, cur, ev) ==
    LET A == ChainA(S, cur, ev) IN S[A].Events[Execute(S[A].Action, "nil")]

\* C7: one SendEvent(e) through such a chain returns success with
\* Current = B and Previous = A, having executed A's action and then B's
\* action, once each.
C7_CascadeReachesFinalState ==
    \A i \in 1..Len(calls) :
        LET k == calls[i] IN
        (Finished(k) /\ Chain(States, k.before.Current, k.event)) =>
            LET A == ChainA(States, k.before.Current, k.event)
                B == ChainB(States, k.before.Current, k.event)
            IN  /\ k.outcome = Success
                /\ k.after = [Previous |-> A, Current |-> B]
                /\ k.acts = <<States[A].Action, States[B].Action>>

\* C7 witness: a call through a chain has returned.
C7_Witness ==
    \E i \in 1..Len(calls) :
        /\ Finished(calls[i])
        /\ Chain(States, calls[i].before.Current, calls[i].event)
        /\ Len(calls[i].acts) = 2

\* Event ev, sent in state cur, resolves to a destination that is declared
\* in S without an Action.
LeadsToActionless(S, cur, ev) ==
    /\ ~NoTransition(S, cur, ev)
    /\ S[cur].Events[ev] \in DOMAIN S
    /\ S[S[cur].Events[ev]].Action = NilAction

\* Event ev, sent in state cur, resolves to a destination that is not
\* declared in S.
LeadsToUndeclared(S, cur, ev) ==
    /\ ~NoTransition(S, cur, ev)
    /\ S[cur].Events[ev] \notin DOMAIN S

\* C8 (as claimed): a call whose event resolves to a declared state without
\* an Action returns an error value that is neither success nor
\* ErrEventRejected.
C8_ConfigurationFailureReturned ==
    \A i \in 1..Len(calls) :
        LET k == calls[i] IN
        (Finished(k) /\ LeadsToActionless(States, k.before.Current, k.event)) =>
            k.outcome \notin {Success, ErrEventRejected, NilDereference}

\* C9 (as claimed): a call whose event resolves to an undeclared or
\* action-less destination fails without modifying Previous and Current
\* and without executing an action.
C9_FailsBeforeTransition ==
    \A i \in 1..Len(calls) :
        LET k == calls[i] IN
        (Finished(k) /\ (\/ LeadsToActionless(States, k.before.Current, k.event)
                         \/ LeadsToUndeclared(States, k.before.Current, k.event))) =>
            /\ k.outcome # Success
            /\ k.after = k.before
            /\ k.acts = <<>>

\* C10 (as claimed): once a transition has been made, Current is a key of
\* States, for every definition.
C10_CurrentIsDeclared ==
    (\E i \in 1..Len(calls) : calls[i].steps > 0) => Current \in DOMAIN States

\* A step in which caller c makes a transition (lines 122-123).
TransitionStep(c) == pc[c] = "transition" /\ pc'[c] = "execute"

\* C11: Previous is the value Current held immediately before the most
\* recent transition: a transition sets Previous to the Current it leaves,
\* and no other step (a rejection, an action, a return) changes Previous.
C11_PreviousIsStateBeforeLastTransition ==
    [][/\ \A c \in Callers : TransitionStep(c) => Previous' = Current
       /\ (~ \E c \in Callers : TransitionStep(c)) => Previous' = Previous]_vars

\* C11 witness: the light switch went from Off to On, a later call was
\* rejected, and Previous is still Off.
C11_Witness ==
    /\ Len(calls) >= 3
    /\ Last.outcome = ErrEventRejected
    /\ Previous = Off
    /\ Current = On

\* C12: the lock is released on every way out of SendEvent: the mutex is
\* held only while the call that acquired it last is still running, and once
\* that call has ended (nil, ErrEventRejected, or the panic of a
\* misconfigured destination) a waiting caller can acquire it.
C12_LockReleasedOnEveryExit ==
    /\ mutex # NoCaller =>
          /\ calls # <<>>
          /\ ~Finished(Last)
          /\ pc[mutex] \in {"resolve", "transition", "execute"}
    /\ \A c \in Callers :
          (alive /\ pc[c] = "lock" /\ (calls = <<>> \/ Finished(Last))) =>
              ENABLED Lock(c)

\* C12 witness: a call has ended in the panic, the process lives on, the
\* mutex is free and another caller is waiting for it.
C12_Witness ==
    /\ calls # <<>>
    /\ Last.outcome = NilDereference
    /\ alive
    /\ mutex = NoCaller
    /\ \E c \in Callers : pc[c] = "lock"

\* C13 (as claimed): every call runs to completion and returns success,
\* rejection or a configuration error: no call ends in a panic, and no
\* caller inside SendEvent is cut off by the end of the process.
C13_EveryCallReturnsAnOutcome ==
    /\ \A i \in 1..Len(calls) : calls[i].outcome # NilDereference
    /\ \A c \in Callers : pc[c] # "idle" => alive

\* The actions executed by the first n calls, in order.
RECURSIVE ActsUpTo(_)
ActsUpTo(n) == IF n = 0 THEN <<>> ELSE ActsUpTo(n - 1) \o calls[n].acts

\* C14: on the light switch a successful call executes exactly one action,
\* the one bound to the new Current, and a rejected call executes none; the
\* calls SwitchOff, SwitchOff, SwitchOn, SwitchOn, SwitchOff execute
\* OffAction, OnAction, OffAction, in that order.
C14_LightSwitchActions ==
    States = LightSwitchStates =>
        /\ \A i \in 1..Len(calls) :
               LET k == calls[i] IN
               /\ k.outcome = Success =>
                      k.acts = <<LightSwitchStates[k.after.Current].Action>>
               /\ k.outcome = ErrEventRejected => k.acts = <<>>
        /\ (/\ Len(calls) >= 5
            /\ FirstEvents(5) = <<SwitchOff, SwitchOff, SwitchOn, SwitchOn, SwitchOff>>
            /\ Finished(calls[5])) =>
               ActsUpTo(5) = <<OffAction, OnAction, OffAction>>

\* C14 witness: the five calls of the test have been made and have ended.
C14_Witness ==
    /\ States = LightSwitchStates
    /\ Len(calls) = 5
    /\ FirstEvents(5) = <<SwitchOff, SwitchOff, SwitchOn, SwitchOn, SwitchOff>>
    /\ Finished(calls[5])
    /\ Len(ActsUpTo(5)) = 3

\* C15 (as claimed): every call that returns ErrEventRejected leaves
\* Previous and Current equal to the values they had when the call started,
\* also when the rejected event was returned by an action of the call.
C15_RejectedCallLeavesStartState ==
    \A i \in 1..Len(calls) :
        calls[i].outcome = ErrEventRejected => calls[i].after = calls[i].before

\* A step in which caller c's call returns ErrEventRejected (line 112).
RejectStep(c) == pc[c] = "resolve" /\ pc'[c] = "idle"

\* C15 (amended): the step that rejects an event changes neither Previous
\* nor Current.  A call rejected before any transition therefore leaves
\* them as they were when it started; a call rejected on an event returned
\* by one of its actions leaves them as its last transition set them.
C15_RejectionChangesNothing ==
    [][\A c \in Callers : RejectStep(c) =>
          /\ Last'.outcome = ErrEventRejected
          /\ Previous' = Previous
          /\ Current' = Current
          /\ Last'.after = [Previous |-> Previous', Current |-> Current']
          /\ Last.steps = 0 => Last'.after = Last.before
          /\ Last.steps > 0 => Current' = nextState[c]]_vars

\* C15 witness: a call has been rejected on an event returned by one of its
\* actions, after a transition of its own.
C15_Witness ==
    \E i \in 1..Len(calls) :
        /\ calls[i].outcome = ErrEventRejected
        /\ calls[i].steps > 0
        /\ calls[i].acts # <<>>

\* C16: the transition is committed before the action runs: the step
\* before the action sets Previous to the state the machine was in and
\* Current to the next state; while the action of that state is being
\* executed Current is that state, and the step that takes the action's
\* result leaves Previous and Current as they are, whatever event the
\* action returned.
C16_TransitionCommittedBeforeAction ==
    [][\A c \in Callers :
          /\ TransitionStep(c) => (Previous' = Current /\ Current' = nextState[c])
          /\ pc[c] = "execute" =>
                /\ Current = nextState[c]
                /\ Previous' = Previous
                /\ Current' = Current]_vars

\* C16 witness: the action of "C" is being executed with Current = "C" and
\* Previous = Default; the event it returns will be rejected.
C16_Witness ==
    /\ States = CascadeStates
    /\ \E c \in Callers : pc[c] = "execute" /\ nextState[c] = "C"
    /\ Current = "C"
    /\ Previous = Default

\* Caller c is inside a call that has made a transition and goes on.
InCascade(c) ==
    /\ pc[c] \in {"resolve", "transition", "execute"}
    /\ Last.steps >= 1
    /\ pc'[c] # "idle"

\* C17: the lock is held across all steps of a cascade: from a call's first
\* transition until it returns the caller holds the mutex, no other caller
\* resolves an event or acquires the mutex, only the call's own transitions
\* change Previous and Current, and the call after a cascade starts from
\* the state the cascade ended in.
C17_LockHeldAcrossCascade ==
    [][/\ \A c \in Callers : InCascade(c) =>
             /\ mutex = c
             /\ mutex' = c
             /\ Len(calls') = Len(calls)
             /\ \A d \in Callers \ {c} :
                    pc[d] \in {"idle", "lock"} /\ pc'[d] \in {"idle", "lock"}
             /\ (Previous' # Previous \/ Current' # Current) => TransitionStep(c)
       /\ \A i \in 2..Len(calls) :
             calls[i - 1].steps >= 2 =>
                 (Finished(calls[i - 1]) /\ calls[i].before = calls[i - 1].after)]_vars

\* C17 witness: a caller is between the two transitions of a cascade while
\* another caller waits for the mutex.
C17_Witness ==
    \E c, d \in Callers :
        /\ pc[c] = "resolve"
        /\ Last.steps = 1
        /\ Last.acts = <<"EmitNext">>
        /\ Current = "A"
        /\ pc[d] = "lock"

\* C18: a call returns success exactly when the last action it executed
\* returned NoOp; a successful call has made at least one transition and
\* executed at least one action.
C18_SuccessIffLastActionNoOp ==
    \A i \in 1..Len(calls) :
        LET k == calls[i] IN
        Finished(k) =>
            /\ k.outcome = Success <=>
                  (k.acts # <<>> /\ Execute(k.acts[Len(k.acts)], "nil") = NoOp)
            /\ k.outcome = Success => (k.steps >= 1 /\ Len(k.acts) >= 1)

\* C18 witness: a call has ended in success after two actions, the first
\* of which returned an event and the last NoOp, and another call has ended
\* without success and without an action.
C18_Witness ==
    /\ \E i \in 1..Len(calls) :
           calls[i].outcome = Success /\ calls[i].acts = <<"EmitNext", "Finish">>
    /\ \E i \in 1..Len(calls) :
           calls[i].outcome = ErrEventRejected /\ calls[i].acts = <<>>

\* The states of definition S that lie on a cascade cycle: the largest set
\* of states each of which has an action returning an event other than
\* NoOp that its own table maps to a state of the set.
CycleOf(S) ==
    UNION {T \in SUBSET DOMAIN S :
              \A s \in T :
                  /\ S[s].Action # NilAction
                  /\ Execute(S[s].Action, "nil") # NoOp
                  /\ Execute(S[s].Action, "nil") \in DOMAIN S[s].Events
                  /\ S[s].Events[Execute(S[s].Action, "nil")] \in T}

\* Caller c's call has entered a cascade cycle: it holds the mutex and is
\* about to enter a state of the cycle, executes the action of one, or
\* resolves the event the action of one returned.
InCycle(c) ==
    /\ mutex = c
    /\ \/ pc[c] \in {"transition", "execute"} /\ nextState[c] \in CycleOf(States)
       \/ /\ pc[c] = "resolve"
          /\ Last.steps >= 1
          /\ Current \in CycleOf(States)
          /\ event[c] = Execute(States[Current].Action, "nil")

\* C19: a call that has entered a cascade cycle stays in it: it never
\* returns and never releases the mutex, no further call acquires it, and
\* every caller waiting for the mutex goes on waiting.
C19_CycleNeverReturns ==
    [][\A c \in Callers : InCycle(c) =>
          /\ InCycle(c)'
          /\ mutex' = c
          /\ pc'[c] # "idle"
          /\ Len(calls') = Len(calls)
          /\ ~Finished(Last')
          /\ \A d \in Callers \ {c} :
                 /\ pc[d] = "lock" => pc'[d] = "lock"
                 /\ pc'[d] \in {"idle", "lock"}]_vars

\* C19 witness: a call has gone round the cycle (MaxRecorded transitions
\* and more) and is in "Pong" again, while another caller waits for the
\* mutex.
C19_Witness ==
    \E c, d \in Callers :
        /\ InCycle(c)
        /\ Last.steps = MaxRecorded
        /\ Last.before.Current = Default
        /\ Current = "Pong"
        /\ Previous = "Ping"
        /\ pc[d] = "lock"

\* C20: SendEvent never modifies the state collection: no step of any call,
\* whatever its outcome, changes States (the transition table and the
\* action binding of every state); a step changes Previous and Current
\* only.
C20_StatesNeverModified ==
    [][/\ States' = States
       /\ DOMAIN States' = DOMAIN States
       /\ \A s \in DOMAIN States :
              /\ States'[s].Events = States[s].Events
              /\ States'[s].Action = States[s].Action]_vars

\* C20 witness: a call entered the undeclared state "Ghost", looked it up and
\* ended in the nil dereference, and a later call was rejected there; the
\* collection is the one constructed.
C20_Witness ==
    /\ States = MisconfiguredStates
    /\ Previous = Default
    /\ Current = "Ghost"
    /\ \E i, j \in 1..Len(calls) :
           /\ i < j
           /\ calls[i].outcome = NilDereference
           /\ calls[i].steps = 1
           /\ calls[j].outcome = ErrEventRejected
           /\ calls[j].after = calls[j].before

\* The machine a call found, with Previous cleared: a machine with the same
\* definition and the same Current but another past.
Fresh(st) == [Previous |-> Default, Current |-> st.Current]

\* C21: the value a call returns and the Current it leaves are a function of
\* the definition, the Current the call found and the event submitted: two
\* calls that found the same Current and carried the same event returned
\* the same value and left the same Current whatever Previous and the
\* calls before them were, and each returned and left what the same event
\* yields on a machine with that Current and no past.
C21_OutcomeDependsOnCurrentAndEvent ==
    \A i \in 1..Len(calls) :
        LET k == calls[i] IN
        Finished(k) =>
            /\ LET r == Serial(States, Fresh(k.before), k.event) IN
               /\ k.outcome = r.outcome
               /\ k.after.Current = r.state.Current
            /\ \A j \in 1..Len(calls) :
                   LET m == calls[j] IN
                   (/\ Finished(m)
                    /\ m.before.Current = k.before.Current
                    /\ m.event = k.event) =>
                       /\ m.outcome = k.outcome
                       /\ m.after.Current = k.after.Current

\* C21 witness: on the light switch two calls found Current = Off with
\* different Previous (Default and On) and both switched on.
C21_Witness ==
    \E i, j \in 1..Len(calls) :
        /\ calls[i].before = [Previous |-> Default, Current |-> Off]
        /\ calls[j].before = [Previous |-> On, Current |-> Off]
        /\ calls[i].event = SwitchOn
        /\ calls[j].event = SwitchOn
        /\ calls[i].outcome = Success
        /\ calls[j].outcome = Success
        /\ calls[j].after.Current = On

\* C22: a light switch built by newLightSwitchFSM starts with Current =
\* Previous = Default; SwitchOff as its first event returns success, leaves
\* Current = Off and Previous = Default and executes OffAction exactly once
\* (one transition, one action), although Default itself has no action.
C22_FirstSwitchOff ==
    States = LightSwitchStates =>
        /\ LightSwitchStates[Default].Action = NilAction
        /\ calls = <<>> => (Current = Default /\ Previous = Default)
        /\ calls # <<>> => calls[1].before = [Previous |-> Default, Current |-> Default]
        /\ (calls # <<>> /\ calls[1].event = SwitchOff) =>
              /\ calls[1].outcome \in {"running", Success}
              /\ Finished(calls[1]) =>
                    /\ calls[1].after = [Previous |-> Default, Current |-> Off]
                    /\ calls[1].steps = 1
                    /\ calls[1].acts = <<OffAction>>
              /\ (Finished(calls[1]) /\ Len(calls) = 1) =>
                    (Current = Off /\ Previous = Default)

\* C22 witness: the first call was SwitchOff, it has returned and nothing
\* else has acquired the mutex yet.
C22_Witness ==
    /\ States = LightSwitchStates
    /\ Len(calls) = 1
    /\ calls[1].event = SwitchOff
    /\ calls[1].outcome = Success
    /\ calls[1].acts = <<OffAction>>
    /\ Current = Off
    /\ Previous = Default

\* A step in which caller c's call executes an action (line 127).
ExecuteStep(c) ==
    /\ pc[c] = "execute"
    /\ ~inner[c]
    /\ pc'[c] # "execute" \/ inner'[c]
    /\ Lookup(States, nextState[c]).Action # NilAction

\* C23: every action executed during a call, the first and each later one
\* of a cascade, receives the context the caller passed to that call: the
\* call's eventCtx is that value from the Lock to the return, no step of
\* the call changes it, and each Execute is handed it.
C23_ActionsReceiveCallersContext ==
    [][\A c \in Callers :
          /\ pc[c] \in {"lock", "resolve", "transition", "execute"} =>
                /\ eventCtx[c] = ContextOf(c)
                /\ pc'[c] # "idle" => eventCtx'[c] = eventCtx[c]
          /\ ExecuteStep(c) => received' = ContextOf(c)
          /\ (\A d \in Callers : ~ExecuteStep(d)) => received' = received]_vars

\* C23 witness: the second action of a cascade has received the context of
\* its caller, which is not nil.
C23_Witness ==
    /\ States = CascadeStates
    /\ calls # <<>>
    /\ Last.outcome = Success
    /\ Last.acts = <<"EmitNext", "Finish">>
    /\ received = ContextOf(2)
    /\ received # "nil"

\* The (Previous, Current) pairs of a light switch.
LightSwitchPairs ==
    {<<Default, Default>>, <<Default, Off>>, <<Off, On>>, <<On, Off>>}

\* C24: on the light switch, whatever SwitchOn/SwitchOff (and NoOp)
\* submissions any number of concurrent callers make, (Previous, Current)
\* is one of (Default, Default), (Default, Off), (Off, On), (On, Off);
\* Current is not Default once a transition has been made, and no call
\* resolves to a destination without a bound action, so none ends in the
\* nil dereference.
C24_LightSwitchReachablePairs ==
    States = LightSwitchStates =>
        /\ <<Previous, Current>> \in LightSwitchPairs
        /\ (\E i \in 1..Len(calls) : calls[i].steps > 0) => Current # Default
        /\ \A c \in Callers :
               pc[c] \in {"transition", "execute"} =>
                   /\ nextState[c] \in DOMAIN States
                   /\ States[nextState[c]].Action # NilAction
        /\ \A i \in 1..Len(calls) : calls[i].outcome # NilDereference

\* C24 witness: the switch is Off after having been On, a caller holds the
\* mutex with SwitchOn resolved to On, and another waits for the mutex.
C24_Witness ==
    /\ States = LightSwitchStates
    /\ <<Previous, Current>> = <<On, Off>>
    /\ \E c, d \in Callers :
           /\ pc[c] = "transition"
           /\ nextState[c] = On
           /\ pc[d] = "lock"

\* The events of the calls among the first n that returned success, in the
\* order in which the calls acquired the mutex.
RECURSIVE SuccessfulEvents(_)
SuccessfulEvents(n) ==
    IF n = 0 THEN <<>>
    ELSE IF calls[n].outcome = Success
         THEN Append(SuccessfulEvents(n - 1), calls[n].event)
         ELSE SuccessfulEvents(n - 1)

\* C25: on the light switch, the calls that returned success, in lock order,
\* carry SwitchOff, SwitchOn, SwitchOff, ... in strict alternation starting
\* with SwitchOff; no two successful calls of the same event are adjacent.
C25_SuccessesAlternate ==
    States = LightSwitchStates =>
        LET ok == SuccessfulEvents(Len(calls)) IN
        /\ \A i \in 1..Len(ok) :
               ok[i] = IF i % 2 = 1 THEN SwitchOff ELSE SwitchOn
        /\ \A i \in 1..(Len(ok) - 1) : ok[i] # ok[i + 1]

\* C25 witness: of five calls the first, third and fifth have succeeded and
\* the two between them were rejected.
C25_Witness ==
    /\ States = LightSwitchStates
    /\ Len(calls) = 5
    /\ SuccessfulEvents(5) = <<SwitchOff, SwitchOn, SwitchOff>>
    /\ calls[2].outcome = ErrEventRejected
    /\ calls[4].outcome = ErrEventRejected

\* C26: when an action executed by SendEvent calls SendEvent on the same
\* machine, the inner call waits for the mutex its own outer call holds:
\* the mutex is not free for it, it stays at the Lock for ever, the outer
\* call stays inside Execute and does not return, no call is started or
\* finished, Previous and Current stay as they are, and every other caller
\* that reaches the Lock stays there.
C26_ReentrantCallDeadlocks ==
    [][\A c \in Callers : inner[c] =>
          /\ mutex = c
          /\ pc[c] = "execute"
          /\ ~LockFree(mutex)
          /\ ~Finished(Last)
          /\ inner'[c]
          /\ mutex' = c
          /\ pc'[c] = "execute"
          /\ calls' = calls
          /\ Previous' = Previous
          /\ Current' = Current
          /\ \A d \in Callers \ {c} :
                 /\ pc'[d] \in {"idle", "lock"}
                 /\ pc[d] = "lock" => pc'[d] = "lock"]_vars

\* C26 witness: the action of "Loop" has called SendEvent inside a call
\* that came from Default, and another caller waits for the mutex too.
C26_Witness ==
    \E c, d \in Callers :
        /\ c # d
        /\ inner[c]
        /\ Last.before.Current = Default
        /\ Last.acts = <<"Resend">>
        /\ Current = "Loop"
        /\ event[c] = "tick"
        /\ pc[d] = "lock"

\* Event ev, sent in state cur, is a self-transition to a state with an
\* action: cur's table maps ev to cur itself and cur has an Action.
SelfTransition(S, cur, ev) ==
    /\ ~NoTransition(S, cur, ev)
    /\ S[cur].Events[ev] = cur
    /\ S[cur].Action # NilAction

\* C27: a call whose event the current state's table maps to the current
\* state itself executes that state's action again, first of all its
\* actions, and its transition leaves Previous = Current = that state; when
\* the action returns NoOp the call returns success with that one action
\* and leaves the machine so.
C27_SelfTransition ==
    /\ \A i \in 1..Len(calls) :
           LET k == calls[i]
               cur == k.before.Current
           IN  SelfTransition(States, cur, k.event) =>
                   /\ k.acts # <<>> => k.acts[1] = States[cur].Action
                   /\ Finished(k) => (k.steps >= 1 /\ k.acts # <<>>)
                   /\ (Finished(k) /\ Execute(States[cur].Action, "nil") = NoOp) =>
                          /\ k.outcome = Success
                          /\ k.steps = 1
                          /\ k.acts = <<States[cur].Action>>
                          /\ k.after = [Previous |-> cur, Current |-> cur]
    /\ \A c \in Callers :
           (/\ pc[c] = "execute"
            /\ Last.steps = 1
            /\ SelfTransition(States, Last.before.Current, Last.event)) =>
               (Previous = Last.before.Current /\ Current = Last.before.Current)

\* C27 witness: "tick" was sent to a machine constructed in "Idle" with
\* Previous = Default; the call has succeeded, having executed the action
\* of "Idle", and Previous = Current = "Idle".
C27_Witness ==
    /\ States = SelfReferringStates
    /\ Len(calls) = 1
    /\ calls[1].before = [Previous |-> Default, Current |-> "Idle"]
    /\ calls[1].event = "tick"
    /\ calls[1].outcome = Success
    /\ calls[1].acts = <<"Finish">>
    /\ Previous = "Idle"
    /\ Current = "Idle"

\* C28: NoOp is special only as the value an action returns.  A submitted
\* NoOp is resolved through the current state's table like any other
\* event: where the table has no NoOp key (the light switch in every state)
\* the call returns ErrEventRejected, changes nothing and executes no
\* action; where it has one the call makes the transition; and no call
\* returns success without a transition.
C28_SubmittedNoOpIsAnOrdinaryEvent ==
    /\ \A i \in 1..Len(calls) :
           LET k == calls[i] IN
           /\ k.outcome = Success => k.steps >= 1
           /\ k.event = NoOp =>
                 IF NoTransition(States, k.before.Current, NoOp)
                 THEN /\ k.outcome \in {"running", ErrEventRejected}
                      /\ k.steps = 0
                      /\ k.acts = <<>>
                      /\ Finished(k) => k.after = k.before
                 ELSE Finished(k) =>
                          /\ k.steps >= 1
                          /\ k.after.Previous = k.before.Current
                          /\ k.after.Current = States[k.before.Current].Events[NoOp]
    /\ States = LightSwitchStates =>
           \A s \in DOMAIN States : NoOp \notin DOMAIN States[s].Events

\* C28 witness: NoOp, sent as the third event to a light switch that is On,
\* has been rejected without an action, and the switch is still On.
C28_Witness ==
    /\ States = LightSwitchStates
    /\ Len(calls) = 3
    /\ calls[3].event = NoOp
    /\ calls[3].before = [Previous |-> Off, Current |-> On]
    /\ calls[3].outcome = ErrEventRejected
    /\ calls[3].acts = <<>>
    /\ Current = On
    /\ Previous = Off

=============================================================================
